---- MODULE Spec2Model ----
(***************************************************************************)
(* A model of rstblog: the reStructuredText translator (worker.py          *)
(* BlogTranslator), the document compilers (Compiler, PageCompiler,        *)
(* PostCompiler), the site assembler (RstBlog), the build task (update)    *)
(* and the webhook endpoint (app.py).                                      *)
(*                                                                         *)
(* Representation.  A pathlib.Path is a record [abs, parts]: abs says      *)
(* whether the path has the root "/", parts are its segments.  A str of    *)
(* HTML is a sequence of one-character strings, so that "".join is         *)
(* concatenation and the empty string is <<>>.  A datetime is a record     *)
(* [y, m, d].  Python's None is a record with a flag (Some/None below).    *)
(***************************************************************************)
EXTENDS Integers, Sequences, FiniteSets, TLC

\* ------------------------------------------------------------------ bounds
\* Longest node sequence of a document walked by the translator.
MaxNodes == 3
\* Most posts handed to RstBlog in the site assembler's specification.
MaxPosts == 3
\* Largest configured page size (content_settings["paginate"]).
MaxStep == 2
\* Most documents (pages and posts together) in the compilers' specification.
MaxDocs == 2
\* Most configured static paths (paths["static"]) in the build task's specification.
MaxStatic == 1
\* Most requests the endpoint's specification follows.
MaxRequests == 2

\* ------------------------------------------------------------ small helpers
None == [some |-> FALSE]
Some(v) == [some |-> TRUE, val |-> v]

\* F applied to the value of v: v is computed once, where a LET would be
\* expanded at each use.
Bind(v, F(_)) == CHOOSE r \in {F(x) : x \in {v}} : TRUE

RECURSIVE SeqsUpTo(_, _)
\* All sequences over S of length at most n.
SeqsUpTo(S, n) ==
    IF n = 0 THEN {<<>>}
    ELSE LET shorter == SeqsUpTo(S, n - 1)
         IN  shorter \cup {Append(s, x) : s \in {t \in shorter : Len(t) = n - 1}, x \in S}

RECURSIVE Concat(_)
\* "".join(list) and list concatenation: the sequences of ss joined in order.
Concat(ss) == IF ss = <<>> THEN <<>> ELSE Head(ss) \o Concat(Tail(ss))

Reverse(s) == [i \in 1..Len(s) |-> s[Len(s) + 1 - i]]

IsPrefix(p, s) == Len(p) <= Len(s) /\ SubSeq(s, 1, Len(p)) = p

\* ------------------------------------------------------------------- paths
AbsPath(parts) == [abs |-> TRUE, parts |-> parts]
RelPath(parts) == [abs |-> FALSE, parts |-> parts]

\* Path.is_absolute()
is_absolute(p) == p.abs

\* Path.__truediv__: joining an absolute right operand discards the left one.
PathJoin(a, b) == IF b.abs THEN b ELSE [abs |-> a.abs, parts |-> a.parts \o b.parts]

\* Path.relative_to(Path("/")) of an absolute path.
relative_to_root(p) == RelPath(p.parts)

\* Path.parent
PathParent(p) ==
    IF p.parts = <<>> THEN p
    ELSE [abs |-> p.abs, parts |-> SubSeq(p.parts, 1, Len(p.parts) - 1)]

RECURSIVE NormParts(_, _)
\* What the operating system makes of the segments: ".." steps up one
\* directory (and stays at the root), as Path.resolve() does.
NormParts(done, rest) ==
    IF rest = <<>> THEN done
    ELSE IF Head(rest) = ".."
         THEN NormParts(IF done = <<>> THEN <<>> ELSE SubSeq(done, 1, Len(done) - 1),
                        Tail(rest))
         ELSE NormParts(Append(done, Head(rest)), Tail(rest))

\* Path.resolve() with the working directory cwd (an absolute, resolved path).
Resolve(cwd, p) == AbsPath(NormParts(<<>>, PathJoin(cwd, p).parts))

\* `a in b.parents`: a is a proper ancestor of b (both resolved).
InParents(a, b) == Len(a.parts) < Len(b.parts) /\ IsPrefix(a.parts, b.parts)

\* ------------------------------------------------------------------- dates
Date(y, m, d) == [y |-> y, m |-> m, d |-> d]

\* datetime ordering
DateLE(a, b) ==
    \/ a.y < b.y
    \/ a.y = b.y /\ a.m < b.m
    \/ a.y = b.y /\ a.m = b.m /\ a.d <= b.d

\* %Y, %m and %d of strftime: the year in four digits, month and day in two
\* digits, zero-padded.
YearStr(y) == CASE y = 2023 -> "2023" [] y = 2024 -> "2024" [] y = 2025 -> "2025"
Pad2(n) ==
    <<"01", "02", "03", "04", "05", "06", "07", "08", "09", "10",
      "11", "12", "13", "14", "15", "16", "17", "18", "19", "20",
      "21", "22", "23", "24", "25", "26", "27", "28", "29", "30", "31">>[n]

\* date.strftime("%Y/%m/%d") read as a Path: three segments.
StrftimeYmd(dt) == RelPath(<<YearStr(dt.y), Pad2(dt.m), Pad2(dt.d)>>)
\* date.strftime("%Y/%m"), the month key and the month's url.
StrftimeYm(dt) == RelPath(<<YearStr(dt.y), Pad2(dt.m)>>)

\* ------------------------------------------------------ the settings directive
\* A date argument as written: the pattern it follows and its fields.
DateArg(fmt, y, m, d) == [fmt |-> fmt, y |-> y, m |-> m, d |-> d]

\* RstBlogSettingsDirective.date: None is an error, the three patterns are
\* tried in order, anything else is an error.
date(argument) ==
    IF ~argument.some THEN [ok |-> FALSE]
    ELSE IF argument.val.fmt \in {"%Y/%m/%d", "%d %B %Y", "%d %b %Y"}
         THEN [ok |-> TRUE, val |-> Date(argument.val.y, argument.val.m, argument.val.d)]
         ELSE [ok |-> FALSE]

\* rst.directives.unchanged_required and rst.directives.uri: the argument
\* itself, an error when absent.
required(argument) ==
    IF argument.some THEN [ok |-> TRUE, val |-> argument.val] ELSE [ok |-> FALSE]

\* RstBlogSettingsDirective.taglist: an absent argument is the empty list.
taglist(argument) ==
    [ok |-> TRUE, val |-> IF argument.some THEN argument.val ELSE <<>>]

\* RstBlogSettingsDirective.run: every option of option_spec is converted;
\* a failing conversion raises.
RunSettings(options) ==
    IF required(options.title).ok /\ date(options.date).ok /\ required(options.url).ok
    THEN [ok |-> TRUE,
          val |-> [title |-> required(options.title).val,
                   date |-> date(options.date).val,
                   url |-> required(options.url).val,
                   tags |-> taglist(options.tags).val]]
    ELSE [ok |-> FALSE]

\* -------------------------------------------------------------- translator
\* Nodes of a parsed document.  In a source document the settings directive
\* carries its options as written; in the parsed tree, as converted.
TextNode(html) == [type |-> "text", html |-> html, uri |-> RelPath(<<>>), settings |-> None]
ImageNode(uri) == [type |-> "image", html |-> <<"i">>, uri |-> uri, settings |-> None]
BreakNode == [type |-> "rstblog_break", html |-> <<>>, uri |-> RelPath(<<>>), settings |-> None]
SettingsNode(s) ==
    [type |-> "rstblog_settings", html |-> <<>>, uri |-> RelPath(<<>>), settings |-> Some(s)]

\* BlogTranslator.__init__
NewTranslator ==
    [body |-> <<>>, rstblog_settings |-> None, rstblog_content |-> <<>>,
     preview |-> None, error |-> FALSE]

\* BlogTranslator.rstblog_preview (property): the stored preview when it is
\* truthy, the joined body otherwise.
rstblog_preview(t) ==
    IF t.preview.some /\ t.preview.val # <<>> THEN t.preview.val ELSE Concat(t.body)

\* Mutant: the uri is inserted at the head of rstblog_content.
visit_image_prepending(t, node) ==
    IF is_absolute(node.uri)
    THEN [t EXCEPT !.body = Append(@, node.html), !.error = TRUE]
    ELSE [t EXCEPT !.body = Append(@, node.html),
                   !.rstblog_content = <<node.uri>> \o @]

\* BlogTranslator.visit_image: the element is emitted, then an absolute uri
\* raises and a relative one is collected.
visit_image(t, node) ==
    IF is_absolute(node.uri)
    THEN [t EXCEPT !.body = Append(@, node.html), !.error = TRUE]
    ELSE [t EXCEPT !.body = Append(@, node.html),
                   !.rstblog_content = Append(@, node.uri)]

\* BlogTranslator.visit_rstblog_settings
visit_rstblog_settings(t, node) == [t EXCEPT !.rstblog_settings = node.settings]

\* BlogTranslator.visit_rstblog_break
visit_rstblog_break(t, node) == [t EXCEPT !.preview = Some(Concat(t.body))]

\* HTMLTranslator's visit of a content node: its HTML is appended to body.
visit_text(t, node) == [t EXCEPT !.body = Append(@, node.html)]

\* NodeVisitor dispatch on the node's class.
Visit(t, node) ==
    CASE node.type = "image" -> visit_image(t, node)
      [] node.type = "rstblog_break" -> visit_rstblog_break(t, node)
      [] node.type = "rstblog_settings" -> visit_rstblog_settings(t, node)
      [] OTHER -> visit_text(t, node)

RECURSIVE Walk(_, _)
\* document.walkabout(visitor): the nodes in document order, stopping at
\* the first exception.
Walk(t, nodes) ==
    IF nodes = <<>> \/ t.error THEN t
    ELSE Bind(Visit(t, Head(nodes)), LAMBDA t2 : Walk(t2, Tail(nodes)))

\* RstBlogSettingsDirective and the parser: each directive of the source is
\* run; content items are nodes as they stand.
ParseItem(item) ==
    IF item.type = "rstblog_settings"
    THEN Bind(RunSettings(item.settings.val), LAMBDA r :
           IF r.ok THEN [ok |-> TRUE, node |-> SettingsNode(r.val)] ELSE [ok |-> FALSE])
    ELSE [ok |-> TRUE, node |-> item]

RECURSIVE Parse(_)
Parse(items) ==
    IF items = <<>> THEN [ok |-> TRUE, nodes |-> <<>>]
    ELSE Bind(ParseItem(Head(items)), LAMBDA h :
           IF ~h.ok THEN [ok |-> FALSE]
           ELSE Bind(Parse(Tail(items)), LAMBDA r :
                  IF r.ok THEN [ok |-> TRUE, nodes |-> <<h.node>> \o r.nodes]
                  ELSE [ok |-> FALSE]))

\* The parts BlogWriter.assemble_parts adds from the translator.
AssembleParts(t) ==
    [ok |-> TRUE,
     rstblog_settings |-> t.rstblog_settings,
     rstblog_content |-> t.rstblog_content,
     rstblog_preview |-> rstblog_preview(t)]

\* docutils.core.publish_parts with BlogWriter: parse, walk, assemble_parts.
publish_parts(items) ==
    Bind(Parse(items), LAMBDA p :
      IF ~p.ok THEN [ok |-> FALSE]
      ELSE Bind(Walk(NewTranslator, p.nodes), LAMBDA t :
             IF t.error THEN [ok |-> FALSE] ELSE AssembleParts(t)))

\* -------------------------------------------------------------- file system
\* settings["server"]["directory"], resolved.
OutDir == AbsPath(<<"srv", "www">>)
\* settings["repository"]["directory"], resolved.
RepoDir == AbsPath(<<"srv", "repo">>)

\* The files of the checked-out repository next to the documents.
SourceFiles ==
    {<<"srv", "repo", "posts", "a.png">>, <<"srv", "repo", "posts", "b.png">>,
     <<"srv", "repo", "posts", "img", "c.png">>,
     <<"srv", "repo", "pages", "a.png">>, <<"srv", "repo", "pages", "b.png">>,
     <<"srv", "repo", "pages", "img", "c.png">>,
     <<"srv", "repo", "secret.png">>}

\* The directories os.makedirs(path, exist_ok=True) leaves in existence:
\* the path and every ancestor of it.
Makedirs(ds, path) ==
    ds \cup {NormParts(<<>>, SubSeq(path.parts, 1, k)) : k \in 0..Len(path.parts)}

\* Whether open(path, "w") and shutil.copyfile(_, path) can create the file:
\* its directory exists.
CanCreate(ds, path) ==
    Bind(NormParts(<<>>, path.parts), LAMBDA n :
      n # <<>> /\ SubSeq(n, 1, Len(n) - 1) \in ds /\ n \notin ds)

\* ---------------------------------------------------------------- compilers
\* Mutant: the url is made relative without the is_absolute check.
PageGetUrlUnchecked(page_settings) ==
    [ok |-> TRUE, val |-> relative_to_root(page_settings.url)]

\* PageCompiler.get_url
PageGetUrl(page_settings) ==
    IF ~is_absolute(page_settings.url) THEN [ok |-> FALSE]
    ELSE [ok |-> TRUE, val |-> relative_to_root(page_settings.url)]

\* Mutant: the date is prepended in both modes.
PostGetUrlAlwaysDated(page_settings) ==
    [ok |-> TRUE,
     val |-> PathJoin(StrftimeYmd(page_settings.date), relative_to_root(page_settings.url))]

\* PostCompiler.get_url
PostGetUrl(page_settings) ==
    IF ~is_absolute(page_settings.url)
    THEN [ok |-> TRUE, val |-> PathJoin(StrftimeYmd(page_settings.date), page_settings.url)]
    ELSE [ok |-> TRUE, val |-> relative_to_root(page_settings.url)]

\* Compiler.get_url, dispatched on the compiler class.
get_url(kind, page_settings) ==
    IF kind = "page" THEN PageGetUrl(page_settings) ELSE PostGetUrl(page_settings)

\* PageCompiler.get_template and PostCompiler.get_template: both read
\* templates["page"].
get_template(kind) == "page"

RECURSIVE CopyContent(_, _, _, _, _)
\* The copy loop of Compiler.compile: each referenced item is copied from
\* the document's directory into doc_dir; the first failing copy raises.
CopyContent(src, doc_dir, items, ds, done) ==
    IF items = <<>> THEN [ok |-> TRUE, copies |-> done]
    ELSE Bind([doc |-> src,
               src |-> PathJoin(PathParent(src), Head(items)),
               dest |-> PathJoin(doc_dir, Head(items))], LAMBDA copy :
           IF NormParts(<<>>, copy.src.parts) \in SourceFiles /\ CanCreate(ds, copy.dest)
           THEN Bind(Append(done, copy), LAMBDA done2 :
                  CopyContent(src, doc_dir, Tail(items), ds, done2))
           ELSE [ok |-> FALSE, copies |-> done])

\* Compiler.compile(jinja_env, out_dir) of the document doc with the
\* directories ds in existence: whether it returned, the directories and
\* copies it made, and the DocumentRenderable (with the parts its render
\* closure captures).
Compile(kind, doc, ds) ==
    Bind(publish_parts(doc.items), LAMBDA parts :
      IF ~parts.ok THEN [ok |-> FALSE, dirs |-> ds, copies |-> <<>>]
      ELSE IF ~parts.rstblog_settings.some
      THEN [ok |-> FALSE, dirs |-> ds, copies |-> <<>>]
      ELSE Bind(get_url(kind, parts.rstblog_settings.val), LAMBDA u :
        IF ~u.ok THEN [ok |-> FALSE, dirs |-> ds, copies |-> <<>>]
        ELSE Bind(PathJoin(OutDir, u.val), LAMBDA doc_dir :
             Bind(Makedirs(ds, doc_dir), LAMBDA made :
             Bind(CopyContent(doc.src, doc_dir, parts.rstblog_content, made, <<>>),
                  LAMBDA c :
               [ok |-> c.ok, dirs |-> made, copies |-> c.copies,
                r |-> [out_path |-> PathJoin(doc_dir, RelPath(<<"index.html">>)),
                       url |-> u.val,
                       doc_settings |-> parts.rstblog_settings.val,
                       doc_preview |-> parts.rstblog_preview,
                       template |-> get_template(kind),
                       parts |-> parts, src |-> doc.src]])))))

\* ------------------------------------------------------------ site assembler
RECURSIVE SortByDate(_)
\* list.sort(key=lambda d: d.doc_settings["date"]): ascending and stable, an
\* element goes after every element whose key is not greater.
SortByDate(s) ==
    IF s = <<>> THEN <<>>
    ELSE Bind(SortByDate(SubSeq(s, 1, Len(s) - 1)), LAMBDA init :
         Bind(s[Len(s)], LAMBDA x :
         Bind(Cardinality({i \in 1..Len(init) :
                             DateLE(init[i].doc_settings.date, x.doc_settings.date)}),
              LAMBDA k : SubSeq(init, 1, k) \o <<x>> \o SubSeq(init, k + 1, Len(init)))))

\* Mutant: self.posts.sort(key=..., reverse=True), which keeps equal keys in
\* their original order.
SortedPostsStableDescending(s) == Reverse(SortByDate(Reverse(s)))

\* self.posts.sort(key=...); self.posts.reverse()
SortedPosts(s) == Reverse(SortByDate(s))

\* Mutant: range(0, len(seq) - step + 1, step), which drops a short last chunk.
PaginateDropsShortChunk(s, step) ==
    [k \in 1..(Len(s) \div step) |-> SubSeq(s, (k - 1) * step + 1, k * step)]

\* [seq[i : i + step] for i in range(0, len(seq), step)]
Paginate(s, step) ==
    Bind(Cardinality({i \in 0..(Len(s) - 1) : i % step = 0}), LAMBDA n :
      [k \in 1..n |->
          SubSeq(s, (k - 1) * step + 1, IF k * step < Len(s) THEN k * step ELSE Len(s))])

\* The groupby key: p.doc_settings["date"].strftime("%Y/%m")
MonthKey(p) == StrftimeYm(p.doc_settings.date)

\* datetime.strptime(m, "%Y/%m"): the first day of the month the key names.
StrptimeYm(key) ==
    CHOOSE dt \in {Date(y, m, 1) : y \in 2023..2025, m \in 1..12} : StrftimeYm(dt) = key

RECURSIVE GroupByMonth(_)
\* itertools.groupby over the sorted posts: maximal runs of consecutive
\* posts with the same key, as (datetime, key, list) triples.
GroupByMonth(s) ==
    IF s = <<>> THEN <<>>
    ELSE Bind(MonthKey(Head(s)), LAMBDA key :
         Bind(CHOOSE k \in 1..Len(s) :
                  /\ \A i \in 1..k : MonthKey(s[i]) = key
                  /\ k = Len(s) \/ MonthKey(s[k + 1]) # key, LAMBDA n :
           <<[date |-> StrptimeYm(key), url |-> key, posts |-> SubSeq(s, 1, n)]>>
           \o GroupByMonth(SubSeq(s, n + 1, Len(s)))))

\* f"index{i}" if i else "index", with the ".html" the caller appends.
IndexFile(i) ==
    IF i = 0 THEN "index.html"
    ELSE <<"index1.html", "index2.html", "index3.html", "index4.html", "index5.html",
           "index6.html", "index7.html", "index8.html", "index9.html">>[i]

\* One file to be written: its path, which loop writes it, and the keyword
\* arguments its template is rendered with.
DocTarget(r, params) ==
    [path |-> r.out_path, kind |-> "doc", src |-> Some(r.src), params |-> params,
     index |-> None]

\* The targets of the monthly index loop for one bucket, in order.
MonthTargets(bucket, step, params) ==
    Bind(Paginate(bucket.posts, step), LAMBDA month_paginated :
        [k \in 1..Len(month_paginated) |->
            [path |-> PathJoin(OutDir, PathJoin(bucket.url, RelPath(<<IndexFile(k - 1)>>))),
             kind |-> "month", src |-> None, params |-> params,
             index |-> Some([index_name |-> [month |-> Some(bucket.date), page |-> k],
                             index_posts |-> bucket.posts,
                             index_number |-> 0,
                             index_count |-> 1,
                             chunk |-> k - 1])]])

\* The targets of the main index loop, in order.
MainTargets(paged, params) ==
    [k \in 1..Len(paged) |->
        [path |-> PathJoin(OutDir, RelPath(<<IndexFile(k - 1)>>)),
         kind |-> "main", src |-> None, params |-> params,
         index |-> Some([index_name |-> [month |-> None, page |-> k],
                         index_posts |-> paged[k],
                         index_number |-> k - 1,
                         index_count |-> Len(paged),
                         chunk |-> k - 1])]]

RECURSIVE WriteAll(_, _, _)
\* A loop of `with open(path, "w") as f: f.write(...)`: the targets are
\* written in order and the first file that cannot be created raises.
WriteAll(targets, ds, done) ==
    IF targets = <<>> THEN [ok |-> TRUE, writes |-> done]
    ELSE IF CanCreate(ds, Head(targets).path)
         THEN Bind(Append(done, Head(targets)), LAMBDA done2 :
                WriteAll(Tail(targets), ds, done2))
         ELSE [ok |-> FALSE, writes |-> done]

\* ------------------------------------------------------------------- state
VARIABLES
    pages_in,        \* the page documents handed to RstBlog, in glob order
    posts_in,        \* the post documents handed to RstBlog, in glob order
    step,            \* content_settings["paginate"]
    pages,           \* RstBlog.pages
    posts,           \* RstBlog.posts
    paginated,       \* render's local `paginated`
    posts_by_month,  \* render's local `posts_by_month`
    dirs,            \* the directories that exist, as resolved segment lists
    copies,          \* the shutil.copyfile calls that completed, in order
    writes,          \* the files written by render, in order
    pc,              \* where the build stands
    \* update()
    config,          \* the paths and csspath of the repository's pyproject.toml
    static_copies,   \* the shutil.copytree calls that completed, in order
    css,             \* the stylesheet written, if any
    \* BlogTranslator, walking one document
    translator,      \* body, rstblog_settings, rstblog_content, preview
    document,        \* the nodes of the document walked
    visited,         \* how many of them have been visited
    \* app.py
    secret,          \* settings["server"]["secret"]
    queue,           \* the tasks handed to the task queue, in order
    log              \* the requests answered, in order

blogVars == <<pages_in, posts_in, step, pages, posts, paginated, posts_by_month,
              dirs, copies, writes, pc>>
updateVars == <<config, static_copies, css>>
translatorVars == <<translator, document, visited>>
appVars == <<secret, queue, log>>
vars == <<blogVars, updateVars, translatorVars, appVars>>

\* render_params of RstBlog.render
RenderParams ==
    [posts |-> posts, pages |-> pages, posts_by_month |-> posts_by_month,
     posts_paginated |-> paginated]

\* RstBlog.__init__, the pages' list comprehension: the next page is compiled.
CompilePage ==
    /\ pc = "init"
    /\ Len(pages) < Len(pages_in)
    /\ \E c \in {Compile("page", pages_in[Len(pages) + 1], dirs)} :
           /\ dirs' = c.dirs
           /\ copies' = copies \o c.copies
           /\ IF c.ok
              THEN pages' = Append(pages, c.r) /\ pc' = pc
              ELSE pages' = pages /\ pc' = "init_failed"
    /\ UNCHANGED <<updateVars, translatorVars, appVars>>
    /\ UNCHANGED <<pages_in, posts_in, step, posts, paginated, posts_by_month, writes>>

\* RstBlog.__init__, the posts' list comprehension: the next post is compiled.
CompilePost ==
    /\ pc = "init"
    /\ Len(pages) = Len(pages_in)
    /\ Len(posts) < Len(posts_in)
    /\ \E c \in {Compile("post", posts_in[Len(posts) + 1], dirs)} :
           /\ dirs' = c.dirs
           /\ copies' = copies \o c.copies
           /\ IF c.ok
              THEN posts' = Append(posts, c.r) /\ pc' = pc
              ELSE posts' = posts /\ pc' = "init_failed"
    /\ UNCHANGED <<updateVars, translatorVars, appVars>>
    /\ UNCHANGED <<pages_in, posts_in, step, pages, paginated, posts_by_month, writes>>

\* RstBlog.render, up to render_params: sort, reverse, paginate, group.
RenderSort ==
    /\ pc = "init"
    /\ Len(pages) = Len(pages_in)
    /\ Len(posts) = Len(posts_in)
    /\ posts' = SortedPosts(posts)
    /\ paginated' = Paginate(posts', step)
    /\ posts_by_month' = GroupByMonth(posts')
    /\ pc' = "documents"
    /\ UNCHANGED <<updateVars, translatorVars, appVars>>
    /\ UNCHANGED <<pages_in, posts_in, step, pages, dirs, copies, writes>>

\* RstBlog.render, "for r in self.pages + self.posts: r.render(...)".
RenderDocuments ==
    /\ pc = "documents"
    /\ \E w \in {WriteAll([k \in 1..Len(pages \o posts) |->
                                DocTarget((pages \o posts)[k], RenderParams)],
                            dirs, <<>>)} :
           /\ writes' = writes \o w.writes
           /\ pc' = IF w.ok THEN "monthly" ELSE "render_failed"
    /\ UNCHANGED <<updateVars, translatorVars, appVars>>
    /\ UNCHANGED <<pages_in, posts_in, step, pages, posts, paginated, posts_by_month,
                   dirs, copies>>

\* RstBlog.render, the monthly index loops.
RenderMonthly ==
    /\ pc = "monthly"
    /\ \E w \in {WriteAll(Concat([b \in 1..Len(posts_by_month) |->
                                       MonthTargets(posts_by_month[b], step, RenderParams)]),
                            dirs, <<>>)} :
           /\ writes' = writes \o w.writes
           /\ pc' = IF w.ok THEN "main" ELSE "render_failed"
    /\ UNCHANGED <<updateVars, translatorVars, appVars>>
    /\ UNCHANGED <<pages_in, posts_in, step, pages, posts, paginated, posts_by_month,
                   dirs, copies>>

\* RstBlog.render, the main index loop.
RenderMain ==
    /\ pc = "main"
    /\ \E w \in {WriteAll(MainTargets(paginated, RenderParams), dirs, <<>>)} :
           /\ writes' = writes \o w.writes
           /\ pc' = IF w.ok THEN "done" ELSE "render_failed"
    /\ UNCHANGED <<updateVars, translatorVars, appVars>>
    /\ UNCHANGED <<pages_in, posts_in, step, pages, posts, paginated, posts_by_month,
                   dirs, copies>>

\* RstBlog: the compilations of __init__, then render.
Next == CompilePage \/ CompilePost \/ RenderSort \/ RenderDocuments
            \/ RenderMonthly \/ RenderMain

\* ---------------------------------------------------------------- documents
\* The options of a settings directive as written.
Options(title, dt, url) == [title |-> title, date |-> dt, url |-> url, tags |-> None]

SettingsItem(options) ==
    [type |-> "rstblog_settings", html |-> <<>>, uri |-> RelPath(<<>>),
     settings |-> Some(options)]

SrcName(kind, i) ==
    IF kind = "page"
    THEN <<"q1.rst", "q2.rst", "q3.rst", "q4.rst", "q5.rst">>[i]
    ELSE <<"p1.rst", "p2.rst", "p3.rst", "p4.rst", "p5.rst">>[i]

\* The i-th file the glob of update finds under the pages or the posts path.
SrcPath(kind, i) ==
    PathJoin(RepoDir, RelPath(<<IF kind = "page" THEN "pages" ELSE "posts", SrcName(kind, i)>>))

\* The document lists of the given kind whose i-th document has items its[i].
DocList(kind, its) == [i \in 1..Len(its) |-> [src |-> SrcPath(kind, i), items |-> its[i]]]

Ymd(y, m, d) == Some(DateArg("%Y/%m/%d", y, m, d))

\* The site assembler's corpus: posts over three dates (two in one month),
\* with a relative and with an absolute url, and at most one page.
AssemblerPostItems ==
    {<<SettingsItem(Options(Some("T"), dt, Some(u))), TextNode(<<"a">>)>> :
        dt \in {Ymd(2024, 1, 10), Ymd(2024, 1, 20), Ymd(2024, 2, 5)},
        u \in {RelPath(<<"first">>), AbsPath(<<"legacy">>)}}

AboutPageItems ==
    <<SettingsItem(Options(Some("About"), Ymd(2024, 1, 1), Some(AbsPath(<<"about">>)))),
      TextNode(<<"a">>)>>

\* The components a specification does not follow stand still in these states.
UpdateIdle == config = None /\ static_copies = <<>> /\ css = None
TranslatorIdle == translator = NewTranslator /\ document = <<>> /\ visited = 0
AppIdle == secret = "" /\ queue = <<>> /\ log = <<>>

InitBlog(pgs, pts, st) ==
    /\ UpdateIdle /\ TranslatorIdle /\ AppIdle
    /\ pages_in = pgs
    /\ posts_in = pts
    /\ step = st
    /\ pages = <<>>
    /\ posts = <<>>
    /\ paginated = <<>>
    /\ posts_by_month = <<>>
    /\ dirs = Makedirs({}, OutDir)
    /\ copies = <<>>
    /\ writes = <<>>
    /\ pc = "init"

Init ==
    \E pgs \in {<<>>, <<AboutPageItems>>}, pts \in SeqsUpTo(AssemblerPostItems, MaxPosts),
       st \in 1..MaxStep :
        InitBlog(DocList("page", pgs), DocList("post", pts), st)

Spec == Init /\ [][Next]_vars

\* The compilers' corpus: documents with every kind of settings directive
\* and of referenced content, at most MaxDocs of them.
Contents ==
    {<<TextNode(<<"a">>)>>,
     <<ImageNode(RelPath(<<"a.png">>)), TextNode(<<"a">>), ImageNode(RelPath(<<"b.png">>))>>,
     <<ImageNode(RelPath(<<"b.png">>)), ImageNode(RelPath(<<"a.png">>))>>,
     <<ImageNode(RelPath(<<"a.png">>)), ImageNode(AbsPath(<<"etc", "passwd">>))>>,
     <<ImageNode(RelPath(<<"missing.png">>))>>,
     <<ImageNode(RelPath(<<"img", "c.png">>))>>}

CompilerPostItems ==
    {<<SettingsItem(Options(Some("T"), dt, Some(u)))>> \o c :
        dt \in {Ymd(2024, 1, 10), Some(DateArg("%d %B %Y", 2024, 2, 5))},
        u \in {RelPath(<<"first">>), AbsPath(<<"legacy", "post">>)},
        c \in Contents}
    \cup {<<SettingsItem(o), TextNode(<<"a">>)>> :
            o \in {Options(Some("T"), None, Some(RelPath(<<"first">>))),
                   Options(Some("T"), Some(DateArg("%m-%d-%Y", 2024, 1, 10)),
                           Some(RelPath(<<"first">>))),
                   Options(None, Ymd(2024, 1, 10), Some(RelPath(<<"first">>)))}}
    \cup {<<TextNode(<<"a">>)>>}

CompilerPageItems ==
    {<<SettingsItem(Options(Some("About"), Ymd(2024, 1, 1), Some(AbsPath(<<"about">>))))>>
        \o c : c \in Contents}
    \cup {<<SettingsItem(Options(Some("About"), Ymd(2024, 1, 1), Some(RelPath(<<"about">>))))>>
            \o c : c \in {<<TextNode(<<"a">>)>>,
                          <<ImageNode(RelPath(<<"a.png">>)), TextNode(<<"a">>),
                            ImageNode(RelPath(<<"b.png">>))>>}}
    \cup {<<SettingsItem(Options(Some("About"), None, Some(AbsPath(<<"about">>)))),
            TextNode(<<"a">>)>>}

InitCompile ==
    \E pgs \in SeqsUpTo(CompilerPageItems, MaxDocs), pts \in SeqsUpTo(CompilerPostItems, MaxDocs) :
        /\ Len(pgs) + Len(pts) <= MaxDocs
        /\ InitBlog(DocList("page", pgs), DocList("post", pts), 1)

SpecCompile == InitCompile /\ [][Next]_vars

\* The corpus for the paths of the output tree: urls and image URIs with
\* ".." segments next to plain ones, at most MaxDocs posts and one page.
SafetyContents ==
    {<<TextNode(<<"a">>)>>,
     <<ImageNode(RelPath(<<"a.png">>))>>,
     <<ImageNode(RelPath(<<"..", "secret.png">>))>>}

SafetyPostItems ==
    {<<SettingsItem(Options(Some("T"), Ymd(2024, 1, 10), Some(u)))>> \o c :
        u \in {RelPath(<<"first">>), RelPath(<<"..", "sibling">>),
               RelPath(<<"..", "..", "..", "..", "up">>)},
        c \in SafetyContents}

SafetyPageItems ==
    {<<SettingsItem(Options(Some("About"), Ymd(2024, 1, 1), Some(u)))>> \o c :
        u \in {AbsPath(<<"about">>), AbsPath(<<"..", "etc">>)},
        c \in SafetyContents}

InitSafety ==
    \E pgs \in SeqsUpTo(SafetyPageItems, 1), pts \in SeqsUpTo(SafetyPostItems, MaxDocs) :
        InitBlog(DocList("page", pgs), DocList("post", pts), 1)

SpecSafety == InitSafety /\ [][Next]_vars

\* ------------------------------------------------------------- translator walk
\* The nodes documents are made of in the translator's specification.
TranslatorNodes ==
    {TextNode(<<"a">>), TextNode(<<"b">>), BreakNode,
     ImageNode(RelPath(<<"a.png">>)), ImageNode(AbsPath(<<"etc", "passwd">>)),
     SettingsNode([title |-> "T", date |-> Date(2024, 1, 10),
                   url |-> RelPath(<<"first">>), tags |-> <<>>])}

BlogIdle ==
    /\ pages_in = <<>> /\ posts_in = <<>> /\ step = 1
    /\ pages = <<>> /\ posts = <<>> /\ paginated = <<>> /\ posts_by_month = <<>>
    /\ dirs = Makedirs({}, OutDir) /\ copies = <<>> /\ writes = <<>>
    /\ pc = "idle"

InitTranslate ==
    /\ BlogIdle /\ UpdateIdle /\ AppIdle
    /\ document \in SeqsUpTo(TranslatorNodes, MaxNodes)
    /\ translator = NewTranslator
    /\ visited = 0

\* One step of document.walkabout(visitor): the next node is visited.
VisitNode ==
    /\ visited < Len(document)
    /\ ~translator.error
    /\ translator' = Visit(translator, document[visited + 1])
    /\ visited' = visited + 1
    /\ UNCHANGED <<document, blogVars, updateVars, appVars>>

SpecTranslate == InitTranslate /\ [][VisitNode]_vars

\* ------------------------------------------------------------------ endpoint
\* hmac.new(key, msg, sha256).hexdigest(): a digest is determined by, and
\* determines, the key and the message.
Hmac(key, msg) == <<"hmac-sha256", key, msg>>

\* A header value: the text before the digest, and the digest.
Header(prefix, digest) == [prefix |-> prefix, digest |-> digest]

\* Mutant: any X-Hub-Signature-256 header is taken as valid.
validate_hmac_any_header(sec, sig, data) == IF ~sig.some THEN 403 ELSE 200

\* validate_hmac: the status the wrapper answers with, 200 standing for the
\* call of the wrapped view.
validate_hmac(sec, sig, data) ==
    IF ~sig.some THEN 403
    ELSE IF Header("sha256=", Hmac(sec, data)) # sig.val THEN 401
    ELSE 200

\* worker.<task>.delay(...) on behalf of the n-th request (0: at import).
Task(name, n) == [task |-> name, request |-> n]

\* _refresh: worker.update.delay(branch=branch). update declares no
\* parameter, so whether the call puts the task on the queue or raises
\* TypeError (answered 500) depends on whether the installed Celery checks
\* the arguments of a task when it is called; both outcomes are kept.
RefreshOutcomes(q, n) ==
    {[queue |-> Append(q, Task("update", n)), status |-> 200],
     [queue |-> q, status |-> 500]}

Secrets == {"", "s3cret"}
Bodies == {"push-a", "push-b"}
Headers ==
    {None} \cup {Some(Header(p, Hmac(k, b))) :
                    p \in {"sha256=", "sha1="}, k \in Secrets \cup {"guess"}, b \in Bodies}

InitApp ==
    /\ BlogIdle /\ UpdateIdle /\ TranslatorIdle
    /\ secret \in Secrets
    /\ queue = <<Task("clone_repository", 0), Task("update", 0)>>
    /\ log = <<>>

\* request_refresh behind validate_hmac: POST /refresh.
PostRefresh ==
    /\ Len(log) < MaxRequests
    /\ \E sig \in Headers, data \in Bodies :
          \E checked \in {validate_hmac(secret, sig, data)} :
          \E o \in IF checked = 200 THEN RefreshOutcomes(queue, Len(log) + 1)
                   ELSE {[queue |-> queue, status |-> checked]} :
              /\ log' = Append(log, [route |-> "/refresh", sig |-> sig, data |-> data,
                                     status |-> o.status])
              /\ queue' = o.queue
    /\ UNCHANGED <<secret, blogVars, updateVars, translatorVars>>

\* test_refresh: GET /test, registered only when no secret is configured.
GetTest ==
    /\ secret = ""
    /\ Len(log) < MaxRequests
    /\ \E o \in RefreshOutcomes(queue, Len(log) + 1) :
          /\ log' = Append(log, [route |-> "/test", sig |-> None, data |-> "",
                                 status |-> o.status])
          /\ queue' = o.queue
    /\ UNCHANGED <<secret, blogVars, updateVars, translatorVars>>

NextApp == PostRefresh \/ GetTest

SpecApp == InitApp /\ [][NextApp]_vars

\* --------------------------------------------------------------- build task
\* The directories and the documents of the checked-out repository.
RepoDirs ==
    {<<"srv", "repo">>, <<"srv", "repo", "posts">>, <<"srv", "repo", "pages">>,
     <<"srv", "repo", "static">>, <<"srv", "repo", "posts", "img">>,
     <<"srv", "repo", "pages", "img">>}

RepoDocs ==
    <<[src |-> SrcPath("page", 1), items |-> AboutPageItems],
      [src |-> SrcPath("post", 1),
       items |-> <<SettingsItem(Options(Some("First"), Ymd(2024, 1, 10),
                                        Some(RelPath(<<"first">>)))),
                   TextNode(<<"a">>)>>],
      [src |-> SrcPath("post", 2),
       items |-> <<SettingsItem(Options(Some("Second"), Ymd(2024, 2, 5),
                                        Some(RelPath(<<"second">>)))),
                   TextNode(<<"b">>)>>]>>

\* glob.glob(str(path) + "/**/*.rst", recursive=True)
Glob(path) == SelectSeq(RepoDocs, LAMBDA d : InParents(path, d.src))

\* Mutant: the static paths are not checked.
ValidConfigSourcesOnly(cfg) ==
    /\ InParents(RepoDir, Resolve(RepoDir, cfg.posts))
    /\ InParents(RepoDir, Resolve(RepoDir, cfg.pages))

\* update: the checks of the posts, pages and static paths.
ValidConfig(cfg) ==
    /\ InParents(RepoDir, Resolve(RepoDir, cfg.posts))
    /\ InParents(RepoDir, Resolve(RepoDir, cfg.pages))
    /\ \A i \in 1..Len(cfg.static) :
          /\ ~is_absolute(cfg.static[i])
          /\ InParents(RepoDir, Resolve(RepoDir, cfg.static[i]))

RECURSIVE CopyStatic(_, _, _)
\* The static loop of update: each path that exists in the repository is
\* copied with shutil.copytree to the same relative path resolved in the
\* output directory; copytree raises when its destination exists.
CopyStatic(paths, ds, done) ==
    IF paths = <<>> THEN [ok |-> TRUE, dirs |-> ds, copies |-> done]
    ELSE Bind([src |-> Resolve(RepoDir, Head(paths)), dest |-> Resolve(OutDir, Head(paths))],
              LAMBDA copy :
           IF copy.src.parts \notin RepoDirs
           THEN CopyStatic(Tail(paths), ds, done)
           ELSE IF copy.dest.parts \in ds \cup RepoDirs
           THEN [ok |-> FALSE, dirs |-> ds, copies |-> done]
           ELSE Bind(Makedirs(ds, copy.dest), LAMBDA made :
                Bind(Append(done, copy), LAMBDA done2 :
                  CopyStatic(Tail(paths), made, done2))))

\* What the previous build left in the output directory.
StaleDirs == Makedirs({}, PathJoin(OutDir, RelPath(<<"2023", "12", "31", "old">>)))

PostsPaths ==
    {RelPath(<<"posts">>), AbsPath(<<"srv", "repo", "posts">>),
     RelPath(<<"..", "repo", "posts">>), RelPath(<<"..", "elsewhere">>),
     AbsPath(<<"etc">>), RelPath(<<>>)}
PagesPaths == {RelPath(<<"pages">>), RelPath(<<"..">>)}
StaticPaths ==
    {RelPath(<<"static">>), AbsPath(<<"srv", "repo", "static">>),
     RelPath(<<"..", "repo", "static">>), RelPath(<<"..", "secret">>),
     RelPath(<<"assets">>)}
CssPaths ==
    {RelPath(<<"pygments.css">>), RelPath(<<"static", "pygments.css">>),
     RelPath(<<"..", "pygments.css">>)}

InitUpdate ==
    /\ TranslatorIdle /\ AppIdle
    /\ config \in [posts : PostsPaths, pages : PagesPaths,
                   static : SeqsUpTo(StaticPaths, MaxStatic), csspath : CssPaths]
    /\ static_copies = <<>>
    /\ css = None
    /\ pages_in = <<>> /\ posts_in = <<>> /\ step = MaxStep
    /\ pages = <<>> /\ posts = <<>> /\ paginated = <<>> /\ posts_by_month = <<>>
    /\ dirs = StaleDirs /\ copies = <<>> /\ writes = <<>>
    /\ pc = "update"

\* update: the git commands in the repository; any of them may fail.
UpdateFetch ==
    /\ pc = "update"
    /\ \E ok \in BOOLEAN : pc' = IF ok THEN "validate" ELSE "fetch_failed"
    /\ UNCHANGED <<pages_in, posts_in, step, pages, posts, paginated, posts_by_month,
                   dirs, copies, writes, updateVars, translatorVars, appVars>>

\* update: the configured paths are checked and the documents are globbed.
UpdateValidate ==
    /\ pc = "validate"
    /\ IF ValidConfig(config)
       THEN /\ posts_in' = Glob(Resolve(RepoDir, config.posts))
            /\ pages_in' = Glob(Resolve(RepoDir, config.pages))
            /\ pc' = "clean"
       ELSE /\ UNCHANGED <<pages_in, posts_in>>
            /\ pc' = "update_failed"
    /\ UNCHANGED <<step, pages, posts, paginated, posts_by_month,
                   dirs, copies, writes, updateVars, translatorVars, appVars>>

\* update: every entry of the output directory is removed.
UpdateClean ==
    /\ pc = "clean"
    /\ dirs' = Makedirs({}, OutDir)
    /\ pc' = "static"
    /\ UNCHANGED <<pages_in, posts_in, step, pages, posts, paginated, posts_by_month,
                   copies, writes, updateVars, translatorVars, appVars>>

\* update: the static trees are copied.
UpdateStatic ==
    /\ pc = "static"
    /\ \E c \in {CopyStatic(config.static, dirs, <<>>)} :
          /\ dirs' = c.dirs
          /\ static_copies' = c.copies
          /\ pc' = IF c.ok THEN "css" ELSE "update_failed"
    /\ UNCHANGED <<pages_in, posts_in, step, pages, posts, paginated, posts_by_month,
                   copies, writes, config, css, translatorVars, appVars>>

\* update: the stylesheet's path is checked and the stylesheet written; then
\* RstBlog is constructed.
UpdateCss ==
    /\ pc = "css"
    /\ \E pygments_css \in {Resolve(OutDir, config.csspath)} :
          IF InParents(OutDir, pygments_css) /\ CanCreate(dirs, pygments_css)
          THEN css' = Some(pygments_css) /\ pc' = "init"
          ELSE css' = css /\ pc' = "update_failed"
    /\ UNCHANGED <<pages_in, posts_in, step, pages, posts, paginated, posts_by_month,
                   dirs, copies, writes, config, static_copies, translatorVars, appVars>>

NextUpdate ==
    UpdateFetch \/ UpdateValidate \/ UpdateClean \/ UpdateStatic \/ UpdateCss \/ Next

SpecUpdate == InitUpdate /\ [][NextUpdate]_vars

\* ------------------------------------------------------------------- claims
Range(f) == {f[i] : i \in DOMAIN f}

CeilDiv(n, d) == (n + d - 1) \div d

\* The options the document's settings directive declares, as written.
DeclaredOptions(doc) ==
    (CHOOSE it \in Range(doc.items) : it.type = "rstblog_settings").settings.val

HasSettings(doc) == \E it \in Range(doc.items) : it.type = "rstblog_settings"

\* The source document a renderable was compiled from.
PostDocOf(r) == CHOOSE d \in Range(posts_in) : d.src = r.src
PageDocOf(r) == CHOOSE d \in Range(pages_in) : d.src = r.src

\* The place of a post in the list handed to RstBlog (glob order).
Discovery(r) == CHOOSE i \in 1..Len(posts_in) : posts_in[i].src = r.src

\* render has sorted the posts.
Sorted == pc \in {"documents", "monthly", "main", "done", "render_failed"}
\* render has written every page and post.
DocumentsWritten == pc \in {"monthly", "main", "done"}

SameDate(a, b) == a.doc_settings.date = b.doc_settings.date

Descending(s) ==
    \A i, j \in 1..Len(s) :
        i < j => DateLE(s[j].doc_settings.date, s[i].doc_settings.date)

MainWrites == SelectSeq(writes, LAMBDA w : w.kind = "main")
MonthWrites == SelectSeq(writes, LAMBDA w : w.kind = "month")

IndexFileName(i) ==
    CASE i = 0 -> "index.html" [] i = 1 -> "index1.html" [] i = 2 -> "index2.html"
      [] i = 3 -> "index3.html" [] i = 4 -> "index4.html" [] i = 5 -> "index5.html"

\* C1 as stated: once render has sorted the posts, the sequence every
\* template is rendered with is in descending date order, and posts with
\* equal dates stand in discovery order.
C1_TiesInDiscoveryOrder ==
    Sorted =>
        /\ Descending(posts)
        /\ \A i, j \in 1..Len(posts) :
              i < j /\ SameDate(posts[i], posts[j])
                  => Discovery(posts[i]) < Discovery(posts[j])
        /\ \A n \in 1..Len(writes) : writes[n].params.posts = posts

\* C1 amended: once render has sorted the posts, the sequence every template
\* is rendered with is in descending date order, and posts with equal dates
\* stand in the reverse of their discovery order.
C1_TiesInReverseDiscoveryOrder ==
    Sorted =>
        /\ Descending(posts)
        /\ \A i, j \in 1..Len(posts) :
              i < j /\ SameDate(posts[i], posts[j])
                  => Discovery(posts[i]) > Discovery(posts[j])
        /\ \A n \in 1..Len(writes) : writes[n].params.posts = posts

\* C1's case: a finished render of posts among which two share a date and
\* two do not.
C1_Witness ==
    /\ pc = "done"
    /\ \E i, j \in 1..Len(posts) : i < j /\ SameDate(posts[i], posts[j])
    /\ \E i, j \in 1..Len(posts) : ~SameDate(posts[i], posts[j])

\* C2: for N posts and page size step there are ceil(N/step) chunks, all
\* but the last of step posts, which concatenated are the sorted posts;
\* chunk i is written to index.html (i = 0) or index{i}.html with
\* index_number i and index_count the number of chunks, and a render that
\* finishes has written every chunk.
C2_Pagination ==
    Sorted =>
        /\ Len(paginated) = CeilDiv(Len(posts), step)
        /\ \A k \in 1..(Len(paginated) - 1) : Len(paginated[k]) = step
        /\ Len(paginated) > 0 => Len(paginated[Len(paginated)]) \in 1..step
        /\ Concat(paginated) = posts
        /\ Len(MainWrites) <= Len(paginated)
        /\ pc = "done" => Len(MainWrites) = Len(paginated)
        /\ \A k \in 1..Len(MainWrites) :
              /\ MainWrites[k].path = AbsPath(OutDir.parts \o <<IndexFileName(k - 1)>>)
              /\ MainWrites[k].index.val.index_posts = paginated[k]
              /\ MainWrites[k].index.val.index_number = k - 1
              /\ MainWrites[k].index.val.index_count = Len(paginated)

\* C2's case: a finished render of three posts in pages of two.
C2_Witness ==
    /\ pc = "done"
    /\ Len(posts) = 3
    /\ step = 2
    /\ Len(MainWrites) = 2

\* C3: a build with zero posts writes exactly one global index
\* page, index.html with an empty post list, and no monthly index.
C3_OneEmptyIndexPage ==
    (pc = "done" /\ posts_in = <<>>) =>
        /\ Len(MainWrites) = 1
        /\ MainWrites[1].path = AbsPath(OutDir.parts \o <<"index.html">>)
        /\ MainWrites[1].index.val.index_posts = <<>>
        /\ posts_by_month = <<>>
        /\ MonthWrites = <<>>

\* The chunk-th slice of step posts of a bucket (chunk counted from 0).
ChunkOf(s, chunk, st) ==
    SubSeq(s, chunk * st + 1, IF (chunk + 1) * st < Len(s) THEN (chunk + 1) * st ELSE Len(s))

\* C10: each monthly index file is the n-th chunk's file of its bucket and
\* is rendered with exactly that chunk's posts, index_number 0 and
\* index_count 1.
C10_MonthlyIndexHoldsItsChunk ==
    \A n \in 1..Len(MonthWrites) :
        \E b \in 1..Len(posts_by_month) :
            LET bucket == posts_by_month[b]
                ix == MonthWrites[n].index.val
            IN  /\ MonthWrites[n].path =
                       AbsPath(OutDir.parts \o bucket.url.parts
                                 \o <<IndexFileName(ix.chunk)>>)
                /\ ix.index_posts = ChunkOf(bucket.posts, ix.chunk, step)
                /\ ix.index_number = 0
                /\ ix.index_count = 1

\* The directory date.strftime("%Y/%m/%d") names, for the dates of the corpus.
DateDir(arg) ==
    CASE arg.y = 2024 /\ arg.m = 1 /\ arg.d = 10 -> <<"2024", "01", "10">>
      [] arg.y = 2024 /\ arg.m = 1 /\ arg.d = 20 -> <<"2024", "01", "20">>
      [] arg.y = 2024 /\ arg.m = 2 /\ arg.d = 5 -> <<"2024", "02", "05">>

\* The write events of the document compiled from src.
WritesOf(src) == {n \in 1..Len(writes) : writes[n].src = Some(src)}

\* C4: a post with a relative url is compiled into outDir/YYYY/MM/DD/url, a
\* post with an absolute url into outDir/url without a date component; the
\* directory exists and render writes the post to index.html in it.
C4_PostOutputPath ==
    \A r \in Range(posts) :
        LET o   == DeclaredOptions(PostDocOf(r))
            dir == IF o.url.val.abs
                   THEN OutDir.parts \o o.url.val.parts
                   ELSE OutDir.parts \o DateDir(o.date.val) \o o.url.val.parts
        IN  /\ r.out_path = AbsPath(dir \o <<"index.html">>)
            /\ dir \in dirs
            /\ DocumentsWritten =>
                  /\ Cardinality(WritesOf(r.src)) = 1
                  /\ \A n \in WritesOf(r.src) : writes[n].path = AbsPath(dir \o <<"index.html">>)

\* C4's case: the documents are written and among them are a post with a
\* relative url and a post with an absolute url.
C4_Witness ==
    /\ DocumentsWritten
    /\ \E r \in Range(posts) : DeclaredOptions(PostDocOf(r)).url.val.abs
    /\ \E r \in Range(posts) : ~DeclaredOptions(PostDocOf(r)).url.val.abs

\* A page whose settings directive declares a url that is not absolute.
DeclaresRelativeUrl(doc) ==
    /\ HasSettings(doc)
    /\ DeclaredOptions(doc).url.some
    /\ ~DeclaredOptions(doc).url.val.abs

Ancestors(parts) == {SubSeq(parts, 1, k) : k \in 0..Len(parts)}

\* The directories the compiled documents rs account for.
DirsOf(rs) ==
    Ancestors(OutDir.parts)
        \cup UNION {Ancestors(PathParent(r.out_path).parts) : r \in Range(rs)}

\* C5: a compiled page declared an absolute url, its directory is outDir
\* joined with that url taken relative to the root, and render writes it
\* once, to index.html there; a page declaring a url that is not absolute
\* is never compiled, stops the build, and its compile creates no directory
\* and copies no asset.
C5_PageOutputPath ==
    /\ \A r \in Range(pages) :
          LET o   == DeclaredOptions(PageDocOf(r))
              dir == OutDir.parts \o o.url.val.parts
          IN  /\ o.url.val.abs
              /\ r.out_path = AbsPath(dir \o <<"index.html">>)
              /\ dir \in dirs
              /\ DocumentsWritten =>
                    /\ Cardinality(WritesOf(r.src)) = 1
                    /\ \A n \in WritesOf(r.src) :
                          writes[n].path = AbsPath(dir \o <<"index.html">>)
    /\ \A i \in 1..Len(pages_in) :
          DeclaresRelativeUrl(pages_in[i]) =>
              /\ Len(pages) < i
              /\ pc \in {"init", "init_failed"}
              /\ \A n \in 1..Len(copies) : copies[n].doc # pages_in[i].src
              /\ (pc = "init_failed" /\ Len(pages) = i - 1) => dirs = DirsOf(pages)

\* C5's case: a page with an absolute url and two images was compiled, and
\* the build stopped at a page with a relative url and images.
C5_Witness ==
    /\ pc = "init_failed"
    /\ Len(pages) = 1
    /\ Len(copies) = 2
    /\ Len(pages_in) = 2
    /\ DeclaresRelativeUrl(pages_in[2])
    /\ \E it \in Range(pages_in[2].items) : it.type = "image"

\* The uris of the document's images, in document order.
ImageUris(doc) ==
    LET imgs == SelectSeq(doc.items, LAMBDA it : it.type = "image")
    IN  [k \in 1..Len(imgs) |-> imgs[k].uri]

HasAbsoluteImage(doc) == \E it \in Range(doc.items) : it.type = "image" /\ it.uri.abs

\* C6: a document with an image whose uri is absolute is never compiled (no
\* renderable is returned) and no asset is copied for it; the referenced
\* assets of a compiled document are the uris of its images in document
\* order, none of them absolute.
C6_AbsoluteImageRejected ==
    /\ \A doc \in Range(pages_in) \cup Range(posts_in) :
          HasAbsoluteImage(doc) =>
              /\ \A r \in Range(pages) \cup Range(posts) : r.src # doc.src
              /\ \A n \in 1..Len(copies) : copies[n].doc # doc.src
    /\ \A r \in Range(pages) :
          /\ r.parts.rstblog_content = ImageUris(PageDocOf(r))
          /\ \A k \in 1..Len(r.parts.rstblog_content) : ~r.parts.rstblog_content[k].abs
    /\ \A r \in Range(posts) :
          /\ r.parts.rstblog_content = ImageUris(PostDocOf(r))
          /\ \A k \in 1..Len(r.parts.rstblog_content) : ~r.parts.rstblog_content[k].abs

\* The document whose compile stopped the build.
FailedDoc ==
    IF Len(pages) < Len(pages_in) THEN pages_in[Len(pages) + 1]
    ELSE posts_in[Len(posts) + 1]

\* C6's case: a document with two relative images was compiled, and the
\* build stopped at a document with a relative image before an absolute one.
C6_Witness ==
    /\ pc = "init_failed"
    /\ \E r \in Range(pages) \cup Range(posts) : Len(r.parts.rstblog_content) = 2
    /\ HasAbsoluteImage(FailedDoc)
    /\ Len(ImageUris(FailedDoc)) = 2

\* A configured path that resolves outside the repository.
Outside(p) ==
    ~IsPrefix(RepoDir.parts,
              NormParts(<<>>, IF p.abs THEN p.parts ELSE RepoDir.parts \o p.parts))

BadConfig ==
    \/ Outside(config.posts)
    \/ Outside(config.pages)
    \/ \E i \in 1..Len(config.static) : config.static[i].abs \/ Outside(config.static[i])

\* C7: when the posts path, the pages path or a static path resolves
\* outside the repository, or a static path is absolute, the build never
\* gets past the checks: no static tree is copied, no asset copied, no
\* stylesheet or page written, and the output directory is as it was.
C7_BadPathAbortsBeforeCopy ==
    BadConfig =>
        /\ pc \in {"update", "fetch_failed", "validate", "update_failed"}
        /\ static_copies = <<>>
        /\ copies = <<>>
        /\ writes = <<>>
        /\ css = None
        /\ dirs = StaleDirs

\* C7's case: the build stopped at the checks because of a static path,
\* the posts and pages paths being inside the repository.
C7_Witness ==
    /\ pc = "update_failed"
    /\ ~Outside(config.posts)
    /\ ~Outside(config.pages)
    /\ \E i \in 1..Len(config.static) : ~config.static[i].abs /\ Outside(config.static[i])

\* Whether the n-th request is a POST /refresh carrying the signature of its
\* own body under the configured secret.
ValidlySigned(n) ==
    /\ log[n].sig.some
    /\ log[n].sig.val = [prefix |-> "sha256=", digest |-> Hmac(secret, log[n].data)]

Enqueued(n) == \E k \in 1..Len(queue) : queue[k].request = n

\* C8: a POST /refresh without the header is answered 403, one whose header
\* is not "sha256=" + HMAC-SHA256(secret, body) is answered 401, neither
\* enqueues a task, and a task is enqueued for a POST /refresh only when its
\* signature is valid.
C8_RefreshNeedsValidSignature ==
    \A n \in 1..Len(log) :
        log[n].route = "/refresh" =>
            /\ ~log[n].sig.some => log[n].status = 403 /\ ~Enqueued(n)
            /\ (log[n].sig.some /\ ~ValidlySigned(n)) => log[n].status = 401 /\ ~Enqueued(n)
            /\ Enqueued(n) => ValidlySigned(n)

\* C8's case: a request whose header signs another body was rejected, a
\* request without header was rejected, and a secret is configured.
C8_Witness ==
    /\ secret # ""
    /\ Len(log) = 2
    /\ log[1].sig = Some([prefix |-> "sha256=", digest |-> Hmac(secret, "push-a")])
    /\ log[1].data = "push-b"
    /\ log[1].status = 401
    /\ log[2].sig = Some([prefix |-> "sha256=", digest |-> Hmac(secret, "push-a")])
    /\ log[2].data = "push-a"
    /\ Enqueued(2)

\* The translator has walked the whole document.
Walked == visited = Len(document) /\ ~translator.error

Breaks == {i \in 1..Len(document) : document[i].type = "rstblog_break"}

\* The HTML of the first n nodes.
HtmlOfFirst(n) == Concat([k \in 1..n |-> document[k].html])

\* C9: the preview of a walked document is the HTML before its first break
\* when it has one (also with several breaks, and with a break before all
\* content), and the whole body otherwise.
C9_PreviewUpToFirstBreak ==
    Walked =>
        rstblog_preview(translator) =
            IF Breaks # {}
            THEN HtmlOfFirst((CHOOSE i \in Breaks : \A j \in Breaks : i <= j) - 1)
            ELSE HtmlOfFirst(Len(document))

\* C11: when render comes to open the monthly index files, the directory
\* <out_dir>/YYYY/MM of every month bucket exists, having been made when
\* the posts were compiled, whether their urls are relative or absolute.
C11_MonthDirExists ==
    pc = "monthly" =>
        \A b \in 1..Len(posts_by_month) :
            (OutDir.parts \o posts_by_month[b].url.parts) \in dirs

\* Whether the path with these segments, as the operating system follows
\* it, lies in the directory root or below.
Within(root, parts) == IsPrefix(root.parts, NormParts(<<>>, parts))

\* C12: every directory the build creates, every file it writes and every
\* destination it copies to lies inside the output directory, and every
\* referenced asset is read from inside its document's directory, also for
\* urls, image URIs and static paths with ".." segments.
C12_OutputTreeIsSafe ==
    /\ \A d \in dirs \ Makedirs({}, OutDir) : IsPrefix(OutDir.parts, d)
    /\ \A n \in 1..Len(copies) :
          /\ Within(OutDir, copies[n].dest.parts)
          /\ Within(PathParent(copies[n].doc), copies[n].src.parts)
    /\ \A n \in 1..Len(writes) : Within(OutDir, writes[n].path.parts)
    /\ \A n \in 1..Len(static_copies) : Within(OutDir, static_copies[n].dest.parts)
    /\ css.some => Within(OutDir, css.val.parts)

====
